---- MODULE Spec2Model ----
(***************************************************************************)
(* Model of fs-copy-compat: the cpSync polyfill (polyfillCpSync) and the   *)
(* chunked copyFileSync fallback, over an explicit filesystem namespace.   *)
(*                                                                         *)
(* The platform is a POSIX one (process.platform is not win32).            *)
(* A path is the sequence of its components from the root (<<>> is "/").   *)
(* A stored link target is a record [abs, segs]: "../t" is                 *)
(* [abs |-> FALSE, segs |-> <<"..", "t">>], "/t" is [abs |-> TRUE,         *)
(* segs |-> <<"t">>], "." is [abs |-> FALSE, segs |-> <<".">>] and the     *)
(* empty string is [abs |-> FALSE, segs |-> <<>>].                         *)
(* The filesystem fs maps every existing real path to its node.            *)
(***************************************************************************)
EXTENDS Integers, Sequences, FiniteSets, TLC

VARIABLES fs, src, dest, options, pc, stack, err, calls, run, fs0, fs1, log

vars == <<fs, src, dest, options, pc, stack, err, calls, run, fs0, fs1, log>>

(* ---------------------------------------------------------------- bounds *)

\* Longest path, in components, the filesystem accepts (PATH_MAX).
MaxPathLen == 5

\* Symbolic links followed in one lookup before ELOOP.
MaxHops == 3

\* const BUFFER_SIZE = 65536 (copyFileSync)
BUFFER_SIZE == 65536

(* ----------------------------------------------------------------- paths *)

Root == <<>>

Min(a, b) == IF a < b THEN a ELSE b

\* path.dirname of an absolute path: dirname("/") is "/".
Dirname(p) == IF p = <<>> THEN <<>> ELSE SubSeq(p, 1, Len(p) - 1)

Basename(p) == p[Len(p)]

\* path.join(dir, entry) for a directory entry name.
Join(p, name) == Append(p, name)

IsPrefix(p, q) == Len(p) <= Len(q) /\ SubSeq(q, 1, Len(p)) = p

\* The lexical normalisation path.resolve performs: "." is dropped and ".."
\* removes the component before it (nothing above the root).
RECURSIVE Normalize(_, _)
Normalize(acc, segs) ==
  IF segs = <<>> THEN acc
  ELSE LET c == Head(segs) IN
       IF c = "." THEN Normalize(acc, Tail(segs))
       ELSE IF c = ".." THEN Normalize(Dirname(acc), Tail(segs))
       ELSE Normalize(Append(acc, c), Tail(segs))

\* is-absolute on a target string.
isAbsolute(t) == t.abs

\* path.resolve(base, t): t itself when absolute, else base joined with t;
\* the result is a normalised absolute path.
PathResolve(base, t) ==
  IF t.abs THEN Normalize(<<>>, t.segs) ELSE Normalize(base, t.segs)

RECURSIVE CommonLen(_, _)
CommonLen(p, q) ==
  IF p = <<>> \/ q = <<>> \/ Head(p) # Head(q) THEN 0
  ELSE 1 + CommonLen(Tail(p), Tail(q))

Dots(n) == [i \in 1..n |-> ".."]

\* path.relative(from, to) on normalised absolute paths: one ".." for every
\* component of from below the common prefix, then the rest of to.  The
\* result is the empty string when the two paths are equal.
PathRelative(from, to) ==
  LET k == CommonLen(from, to) IN
  [abs |-> FALSE,
   segs |-> Dots(Len(from) - k) \o SubSeq(to, k + 1, Len(to))]

(* ------------------------------------------------------------ filesystem *)

FileNode(data) == [kind |-> "file", data |-> data]
DirNode == [kind |-> "dir"]
LinkNode(target, type) == [kind |-> "link", target |-> target, type |-> type]

Ok(p) == [err |-> "OK", path |-> p, last |-> FALSE]
Fail(code, p, last) == [err |-> code, path |-> p, last |-> last]

\* Kernel path lookup from directory cur through the components rest.
\* follow says whether a symbolic link in the final component is followed.
\* On ENOENT, last tells whether only the final component is missing (so
\* that a creating call can make it) and path is where it would be.
RECURSIVE Walk(_, _, _, _, _)
Walk(f, cur, rest, hops, follow) ==
  IF rest = <<>> THEN Ok(cur)
  ELSE LET c == Head(rest)
           tl == Tail(rest)
           child == Append(cur, c)
       IN
       IF c = "." THEN Walk(f, cur, tl, hops, follow)
       ELSE IF c = ".." THEN Walk(f, Dirname(cur), tl, hops, follow)
       ELSE IF child \notin DOMAIN f THEN Fail("ENOENT", child, tl = <<>>)
       ELSE IF f[child].kind = "dir" THEN Walk(f, child, tl, hops, follow)
       ELSE IF f[child].kind = "file"
         THEN IF tl = <<>> THEN Ok(child) ELSE Fail("ENOTDIR", child, FALSE)
       ELSE \* a symbolic link
         IF tl = <<>> /\ ~follow THEN Ok(child)
         ELSE IF hops = 0 THEN Fail("ELOOP", child, FALSE)
         ELSE IF f[child].target.segs = <<>> THEN Fail("ENOENT", child, FALSE)
         ELSE Walk(f, IF f[child].target.abs THEN Root ELSE cur,
                   f[child].target.segs \o tl, hops - 1, follow)

Lookup(f, p, follow) ==
  IF Len(p) > MaxPathLen THEN Fail("ENAMETOOLONG", p, FALSE)
  ELSE Walk(f, Root, p, MaxHops, follow)

\* fs.lstatSync(p): the node at p, a final symbolic link not followed.
lstatSync(f, p) ==
  LET r == Lookup(f, p, FALSE) IN
  IF r.err = "OK" THEN [err |-> "OK", node |-> f[r.path]]
  ELSE [err |-> r.err, node |-> DirNode]

\* fs.statSync(p): the node p resolves to.
statSync(f, p) ==
  LET r == Lookup(f, p, TRUE) IN
  IF r.err = "OK" THEN [err |-> "OK", node |-> f[r.path]]
  ELSE [err |-> r.err, node |-> DirNode]

\* fs.existsSync(p): true iff stat succeeds (false for a dangling link).
existsSync(f, p) == Lookup(f, p, TRUE).err = "OK"

\* fs.realpathSync(p).
realpathSync(f, p) == Lookup(f, p, TRUE)

\* fs.readlinkSync(p): the stored target string.
readlinkSync(f, p) ==
  LET r == Lookup(f, p, FALSE) IN
  IF r.err # "OK" THEN [err |-> r.err, target |-> [abs |-> FALSE, segs |-> <<>>]]
  ELSE IF f[r.path].kind # "link"
    THEN [err |-> "EINVAL", target |-> [abs |-> FALSE, segs |-> <<>>]]
  ELSE [err |-> "OK", target |-> f[r.path].target]

Children(f, d) == {q \in DOMAIN f : Len(q) = Len(d) + 1 /\ Dirname(q) = d}

\* fs.readdirSync(p): the entry names of the directory p resolves to.
readdirSync(f, p) ==
  LET r == Lookup(f, p, TRUE) IN
  IF r.err # "OK" THEN [err |-> r.err, names |-> {}]
  ELSE IF f[r.path].kind # "dir" THEN [err |-> "ENOTDIR", names |-> {}]
  ELSE [err |-> "OK", names |-> {Basename(q) : q \in Children(f, r.path)}]

Put(f, p, node) == (p :> node) @@ f

Remove(f, p) == [q \in DOMAIN f \ {p} |-> f[q]]

\* Creation of a new entry at p (mkdir, symlink): the parent must resolve to a
\* directory and nothing, not even a dangling link, may occupy p.
Create(f, p, node) ==
  LET r == Lookup(f, p, FALSE) IN
  IF r.err = "OK" THEN [err |-> "EEXIST", fs |-> f]
  ELSE IF r.err = "ENOENT" /\ r.last THEN [err |-> "OK", fs |-> Put(f, r.path, node)]
  ELSE [err |-> r.err, fs |-> f]

\* fs.mkdirSync(p).
mkdirSync(f, p) == Create(f, p, DirNode)

\* fs.symlinkSync(target, p, type): an empty target is refused.
symlinkSync(f, target, p, type) ==
  IF target.segs = <<>> /\ ~target.abs THEN [err |-> "ENOENT", fs |-> f]
  ELSE Create(f, p, LinkNode(target, type))

\* fs.unlinkSync(p): removes a file or a link (never following it); a
\* directory is refused.
unlinkSync(f, p) ==
  LET r == Lookup(f, p, FALSE) IN
  IF r.err # "OK" THEN [err |-> r.err, fs |-> f]
  ELSE IF f[r.path].kind = "dir"
    THEN [err |-> "EISDIR", fs |-> f]
  ELSE [err |-> "OK", fs |-> Remove(f, r.path)]

\* mkdirp.sync(p): mkdir; on ENOENT make the parent first and try again; on
\* any other error succeed iff p is a directory already.
RECURSIVE mkdirpSync(_, _)
mkdirpSync(f, p) ==
  LET r == mkdirSync(f, p) IN
  IF r.err = "OK" THEN r
  ELSE IF r.err = "ENOENT" THEN
    LET up == mkdirpSync(f, Dirname(p)) IN
    IF up.err # "OK" THEN up ELSE mkdirpSync(up.fs, p)
  ELSE LET st == statSync(f, p) IN
       IF st.err = "OK" /\ st.node.kind = "dir" THEN [err |-> "OK", fs |-> f]
       ELSE r

(* ---------------------------------------------------------- copyFileSync *)

\* The read/write loop of chunkedCopyFileSync: BUFFER_SIZE bytes at a time
\* from position pos until a read returns nothing.
RECURSIVE CopyLoop(_, _, _)
CopyLoop(data, pos, out) ==
  LET bytesRead == Min(BUFFER_SIZE, Len(data) - pos) IN
  IF bytesRead > 0
    THEN CopyLoop(data, pos + bytesRead, out \o SubSeq(data, pos + 1, pos + bytesRead))
    ELSE out

\* Mutant of openWrite: the file is opened without being truncated.
openAppend(f, p) ==
  LET r == Lookup(f, p, TRUE) IN
  IF r.err = "OK" THEN
    IF f[r.path].kind = "dir" THEN [err |-> "EISDIR", fs |-> f, path |-> r.path]
    ELSE [err |-> "OK", fs |-> f, path |-> r.path]
  ELSE IF r.err = "ENOENT" /\ r.last
    THEN [err |-> "OK", fs |-> Put(f, r.path, FileNode(<<>>)), path |-> r.path]
  ELSE [err |-> r.err, fs |-> f, path |-> r.path]

\* fs.openSync(p, 'w'): creates the file, or truncates the one p resolves to.
openWrite(f, p) ==
  LET r == Lookup(f, p, TRUE) IN
  IF r.err = "OK" THEN
    IF f[r.path].kind = "dir" THEN [err |-> "EISDIR", fs |-> f, path |-> r.path]
    ELSE [err |-> "OK", fs |-> Put(f, r.path, FileNode(<<>>)), path |-> r.path]
  ELSE IF r.err = "ENOENT" /\ r.last
    THEN [err |-> "OK", fs |-> Put(f, r.path, FileNode(<<>>)), path |-> r.path]
  ELSE [err |-> r.err, fs |-> f, path |-> r.path]

\* copyFileSync(s, d): open s for reading, open d for writing (truncating
\* it), then write the bytes read, chunk by chunk, after what d holds.
copyFileSync(f, s, d) ==
  LET rs == Lookup(f, s, TRUE) IN
  IF rs.err # "OK" THEN [err |-> rs.err, fs |-> f]
  ELSE LET w == openWrite(f, d) IN
       IF w.err # "OK" THEN [err |-> w.err, fs |-> f]
       ELSE IF w.fs[rs.path].kind = "dir" THEN [err |-> "EISDIR", fs |-> w.fs]
       ELSE [err |-> "OK",
             fs |-> Put(w.fs, w.path,
                        FileNode(w.fs[w.path].data \o CopyLoop(w.fs[rs.path].data, 0, <<>>)))]

(* -------------------------------------------------------- polyfillCpSync *)

\* What one invocation of polyfillCpSync(s, d, options) does up to its
\* recursive calls: the error it throws (err is its code, path the path its
\* message names), the filesystem it leaves, and the invocations it makes
\* next, in order (push).
Return(f, push) == [err |-> "OK", path |-> <<>>, fs |-> f, push |-> push]
Throw(code, p, f) == [err |-> code, path |-> p, fs |-> f, push |-> <<>>]

Frame(s, d) == [src |-> s, dest |-> d]

\* getSymlinkType(targetPath, srcPath): 'file' off Windows.
getSymlinkType(targetPath, srcPath) == "file"

\* const parentDir = path.dirname(d);
\* if (parentDir && !fs.existsSync(parentDir)) mkdirp.sync(parentDir);
EnsureParent(f, d) ==
  LET parentDir == Dirname(d) IN
  IF ~existsSync(f, parentDir) THEN mkdirpSync(f, parentDir)
  ELSE [err |-> "OK", fs |-> f]

\* Mutant of NewLinkTarget: the target is made relative to the destination
\* path itself, not to its directory.
NewLinkTargetFromDest(linkTarget, s, d, verbatimSymlinks) ==
  IF verbatimSymlinks THEN linkTarget
  ELSE LET resolvedTarget ==
             IF isAbsolute(linkTarget) THEN linkTarget
             ELSE [abs |-> TRUE, segs |-> PathResolve(Dirname(s), linkTarget)]
           newLinkTarget ==
             PathRelative(Normalize(<<>>, d), PathResolve(<<>>, resolvedTarget))
       IN IF newLinkTarget.segs = <<>> THEN [abs |-> FALSE, segs |-> <<".">>]
          ELSE newLinkTarget

\* Mutant of NewLinkTarget: verbatimSymlinks is ignored.
NewLinkTargetNeverVerbatim(linkTarget, s, d, verbatimSymlinks) ==
  LET resolvedTarget ==
        IF isAbsolute(linkTarget) THEN linkTarget
        ELSE [abs |-> TRUE, segs |-> PathResolve(Dirname(s), linkTarget)]
      newLinkTarget ==
        PathRelative(Normalize(<<>>, Dirname(d)), PathResolve(<<>>, resolvedTarget))
  IN IF newLinkTarget.segs = <<>> THEN [abs |-> FALSE, segs |-> <<".">>]
     ELSE newLinkTarget

\* The target stored in the new link: the source's target string as it is
\* under verbatimSymlinks, else the source's target resolved from the source
\* link's directory and made relative to the destination link's directory,
\* '.' standing in for an empty result.
NewLinkTarget(linkTarget, s, d, verbatimSymlinks) ==
  IF verbatimSymlinks THEN linkTarget
  ELSE LET resolvedTarget ==
             IF isAbsolute(linkTarget) THEN linkTarget
             ELSE [abs |-> TRUE, segs |-> PathResolve(Dirname(s), linkTarget)]
           newLinkTarget ==
             PathRelative(Normalize(<<>>, Dirname(d)), PathResolve(<<>>, resolvedTarget))
       IN IF newLinkTarget.segs = <<>> THEN [abs |-> FALSE, segs |-> <<".">>]
          ELSE newLinkTarget

\* if (fs.existsSync(d)) fs.unlinkSync(d);
RemoveExisting(f, d) ==
  IF existsSync(f, d) THEN unlinkSync(f, d) ELSE [err |-> "OK", fs |-> f]

\* Mutant of LstatFailure: the destination's parent is made before the
\* source is looked at.
LstatFailureAfterMkdir(f, s, d) == Throw(lstatSync(f, s).err, s, EnsureParent(f, d).fs)

\* fs.lstatSync(s) throws: nothing has been done yet.
LstatFailure(f, s, d) == Throw(lstatSync(f, s).err, s, f)

\* The symlink branch without dereference: make a link at d.
SymlinkPreserve(f, s, d, verbatimSymlinks) ==
  LET ep == EnsureParent(f, d) IN
  IF ep.err # "OK" THEN Throw(ep.err, Dirname(d), ep.fs)
  ELSE LET linkTarget == readlinkSync(ep.fs, s) IN
  IF linkTarget.err # "OK" THEN Throw(linkTarget.err, s, ep.fs)
  ELSE LET newLinkTarget == NewLinkTarget(linkTarget.target, s, d, verbatimSymlinks)
           rm == RemoveExisting(ep.fs, d)
       IN
  IF rm.err # "OK" THEN Throw(rm.err, d, rm.fs)
  ELSE LET sl == symlinkSync(rm.fs, newLinkTarget, d,
                             getSymlinkType(linkTarget.target, s)) IN
  IF sl.err # "OK" THEN Throw(sl.err, d, sl.fs) ELSE Return(sl.fs, <<>>)

\* Mutant of SymlinkDereference: the dereference option is ignored and the
\* link is copied as a link.
SymlinkDereferenceIgnored(f, s, d) == SymlinkPreserve(f, s, d, FALSE)

\* The symlink branch with dereference: copy what the link resolves to.
SymlinkDereference(f, s, d) ==
  LET realPath == realpathSync(f, s) IN
  IF realPath.err # "OK" THEN Throw(realPath.err, s, f)
  ELSE IF statSync(f, realPath.path).node.kind = "dir"
    THEN Return(f, <<Frame(realPath.path, d)>>)
  ELSE LET ep == EnsureParent(f, d) IN
       IF ep.err # "OK" THEN Throw(ep.err, Dirname(d), ep.fs)
       ELSE LET cp == copyFileSync(ep.fs, realPath.path, d) IN
            IF cp.err # "OK" THEN Throw(cp.err, d, cp.fs) ELSE Return(cp.fs, <<>>)

\* The regular file branch.
CopyFile(f, s, d) ==
  LET ep == EnsureParent(f, d) IN
  IF ep.err # "OK" THEN Throw(ep.err, Dirname(d), ep.fs)
  ELSE LET cp == copyFileSync(ep.fs, s, d) IN
       IF cp.err # "OK" THEN Throw(cp.err, d, cp.fs) ELSE Return(cp.fs, <<>>)

\* if (!fs.existsSync(d)) mkdirp.sync(d);
EnsureDest(f, d) ==
  IF ~existsSync(f, d) THEN mkdirpSync(f, d) ELSE [err |-> "OK", fs |-> f]

\* Mutant of Recurse: the loop stops one entry early.
RecurseSkipsLast(s, d, entries) ==
  [i \in 1..(Len(entries) - 1) |-> Frame(Join(s, entries[i]), Join(d, entries[i]))]

\* for (i ...) polyfillCpSync(path.join(s, entries[i]), path.join(d, entries[i]), options)
Recurse(s, d, entries) ==
  [i \in 1..Len(entries) |-> Frame(Join(s, entries[i]), Join(d, entries[i]))]

\* Mutant of CopyDirectory: the destination is made before the recursive
\* option is looked at.
CopyDirectoryMkdirFirst(f, s, d, recursive, entries) ==
  LET md == EnsureDest(f, d) IN
  IF md.err # "OK" THEN Throw(md.err, d, md.fs)
  ELSE IF ~recursive THEN Throw("EISDIR", s, md.fs)
  ELSE LET rd == readdirSync(md.fs, s) IN
       IF rd.err # "OK" THEN Throw(rd.err, s, md.fs)
       ELSE Return(md.fs, Recurse(s, d, entries))

\* The directory branch; entries is the listing readdirSync returned.
CopyDirectory(f, s, d, recursive, entries) ==
  IF ~recursive THEN Throw("EISDIR", s, f)
  ELSE LET md == EnsureDest(f, d) IN
       IF md.err # "OK" THEN Throw(md.err, d, md.fs)
       ELSE LET rd == readdirSync(md.fs, s) IN
            IF rd.err # "OK" THEN Throw(rd.err, s, md.fs)
            ELSE Return(md.fs, Recurse(s, d, entries))

\* The orders in which readdirSync may list a directory's entries.
Orders(S) ==
  {o \in [1..Cardinality(S) -> S] : \A i, j \in 1..Cardinality(S) : o[i] = o[j] => i = j}

Listing(f, s, d) == Orders(readdirSync(EnsureDest(f, d).fs, s).names)

(* ------------------------------------------------------- initial states *)

Data1 == <<1, 2>>
Data2 == <<3>>

None == [kind |-> "none"]
F1 == FileNode(Data1)
F2 == FileNode(Data2)
Rel(segs) == LinkNode([abs |-> FALSE, segs |-> segs], "file")
Abs(segs) == LinkNode([abs |-> TRUE, segs |-> segs], "file")

\* What may stand at each path before the call.  /s is the source area,
\* /t lies outside it, /d is the destination area; "m" never exists.
TopNodes == {None, F1, DirNode, Rel(<<"t">>), Rel(<<"d">>), Abs(<<"t">>)}
InNodes == {None, F1, DirNode, Rel(<<"b">>), Rel(<<"..", "t">>), Rel(<<"..", "d">>),
            Abs(<<"t">>)}
SiblingNodes == {None, F2, Rel(<<"a">>)}
DeepNodes == {None, F2, Rel(<<"..", "b">>), Abs(<<"t">>)}
DestNodes == {None, F2, DirNode, Abs(<<"t">>), Rel(<<"m">>)}

Slots == {<<"s">>, <<"s", "a">>, <<"s", "b">>, <<"s", "a", "b">>,
          <<"t">>, <<"t", "b">>, <<"d">>, <<"d", "a">>}

\* The filesystem holding the chosen nodes (and the root directory).
Build(slot) ==
  [p \in {Root} \cup {q \in Slots : slot[q] # None} |->
     IF p = Root THEN DirNode ELSE slot[p]]

Under(parent, nodes) == IF parent = DirNode THEN nodes ELSE {None}

Options == [recursive : BOOLEAN, verbatimSymlinks : BOOLEAN, dereference : BOOLEAN]

Init ==
  /\ \E sN \in TopNodes, tN \in {None, F2, DirNode}, dN \in DestNodes :
       \E aN \in Under(sN, InNodes), bN \in Under(sN, SiblingNodes),
          daN \in Under(dN, DestNodes \ {DirNode}) :
         \E abN \in Under(aN, DeepNodes) :
           /\ fs = Build([p \in Slots |->
                    CASE p = <<"s">> -> sN
                      [] p = <<"s", "a">> -> aN
                      [] p = <<"s", "b">> -> bN
                      [] p = <<"s", "a", "b">> -> abN
                      [] p = <<"t">> -> tN
                      [] p = <<"t", "b">> -> IF tN = DirNode THEN F1 ELSE None
                      [] p = <<"d">> -> dN
                      [] p = <<"d", "a">> -> daN])
           /\ \E s \in {<<"s">>, <<"t", "b">>},
                 d \in {<<"d">>, <<"d", "a">>, <<"d", "a", "b">>, <<"s", "d">>} :
                /\ s = <<"t", "b">> => sN = None
                /\ d \in {<<"s", "d">>, <<"d", "a", "b">>} => dN = None
                /\ src = s
                /\ dest = d
  /\ options \in Options
  /\ pc = "idle"
  /\ stack = <<>>
  /\ err = [code |-> "OK", path |-> <<>>]
  /\ calls = 0
  /\ run = 1
  /\ fs0 = fs
  /\ fs1 = fs
  /\ log = {}

(* -------------------------------------------------------------- actions *)

\* The node lstatSync finds at the source of the invocation at hand.
Top == Head(stack)
TopStat == lstatSync(fs, Top.src)

\* The effect of one invocation whose outcome is out: a throw unwinds every
\* pending invocation, a return goes on with the recursive calls and then
\* with what the callers have left.
Apply(out, branch, target) ==
  /\ fs' = out.fs
  /\ err' = [code |-> out.err, path |-> out.path]
  /\ stack' = IF out.err # "OK" THEN <<>> ELSE out.push \o Tail(stack)
  /\ pc' = IF stack' = <<>> THEN "done" ELSE "running"
  /\ calls' = calls + 1
  /\ log' = log \cup {[run |-> run, src |-> Top.src, dest |-> Top.dest,
                       branch |-> branch, target |-> target, ok |-> out.err = "OK"]}
  /\ UNCHANGED <<src, dest, options, run, fs0, fs1>>

NoTarget == [abs |-> FALSE, segs |-> <<>>]

\* cpSync(src, dest, options), served by the polyfill.
cpSync ==
  /\ pc = "idle"
  /\ pc' = "running"
  /\ stack' = <<Frame(src, dest)>>
  /\ UNCHANGED <<fs, src, dest, options, err, calls, run, fs0, fs1, log>>

\* const lstat = fs.lstatSync(src) throws.
LstatThrows ==
  /\ pc = "running"
  /\ TopStat.err # "OK"
  /\ Apply(LstatFailure(fs, Top.src, Top.dest), "lstat", NoTarget)

\* lstat.isSymbolicLink() && dereference
DoSymlinkDereference ==
  /\ pc = "running"
  /\ TopStat.err = "OK" /\ TopStat.node.kind = "link"
  /\ options.dereference
  /\ Apply(SymlinkDereference(fs, Top.src, Top.dest), "deref", TopStat.node.target)

\* lstat.isSymbolicLink() && !dereference
DoSymlinkPreserve ==
  /\ pc = "running"
  /\ TopStat.err = "OK" /\ TopStat.node.kind = "link"
  /\ ~options.dereference
  /\ Apply(SymlinkPreserve(fs, Top.src, Top.dest, options.verbatimSymlinks),
           "link", TopStat.node.target)

\* lstat.isFile()
DoCopyFile ==
  /\ pc = "running"
  /\ TopStat.err = "OK" /\ TopStat.node.kind = "file"
  /\ Apply(CopyFile(fs, Top.src, Top.dest), "file", NoTarget)

\* lstat.isDirectory() without the recursive option
DoRejectDirectory ==
  /\ pc = "running"
  /\ TopStat.err = "OK" /\ TopStat.node.kind = "dir"
  /\ ~options.recursive
  /\ Apply(CopyDirectory(fs, Top.src, Top.dest, FALSE, <<>>), "dir", NoTarget)

\* lstat.isDirectory() with the recursive option
DoCopyDirectory ==
  /\ pc = "running"
  /\ TopStat.err = "OK" /\ TopStat.node.kind = "dir"
  /\ options.recursive
  /\ \E entries \in Listing(fs, Top.src, Top.dest) :
       Apply(CopyDirectory(fs, Top.src, Top.dest, TRUE, entries), "dir", NoTarget)

\* After a call that succeeded, the caller invokes cpSync again with the
\* same arguments.
Retry ==
  /\ pc = "done"
  /\ err.code = "OK"
  /\ run = 1
  /\ run' = 2
  /\ pc' = "running"
  /\ stack' = <<Frame(src, dest)>>
  /\ fs1' = fs
  /\ calls' = 0
  /\ UNCHANGED <<fs, src, dest, options, err, fs0, log>>

Next ==
  \/ cpSync
  \/ LstatThrows
  \/ DoSymlinkDereference
  \/ DoSymlinkPreserve
  \/ DoCopyFile
  \/ DoRejectDirectory
  \/ DoCopyDirectory
  \/ Retry

Spec == Init /\ [][Next]_vars

(* --------------------------------------------------------------- claims *)

Done == pc = "done"
Succeeded == Done /\ err.code = "OK"
FirstCall == run = 1

\* The tree at p (a link at p itself is not followed), each entry under its
\* path relative to p.
TreeAt(f, p) ==
  LET r == Lookup(f, p, FALSE) IN
  IF r.err # "OK" THEN <<>>
  ELSE [q \in {SubSeq(x, Len(r.path) + 1, Len(x)) : x \in {y \in DOMAIN f : IsPrefix(r.path, y)}}
          |-> f[r.path \o q]]

\* Nothing, not even a dangling link, is at p.
Absent(f, p) == lstatSync(f, p).err # "OK"

\* The tree below the source consists of directories and regular files.
PlainTree(f, s) ==
  /\ lstatSync(f, s).err = "OK"
  /\ \A q \in DOMAIN TreeAt(f, s) : TreeAt(f, s)[q].kind \in {"dir", "file"}

\* The destination is not in the source tree, lexically or once its parent
\* is resolved.
Outside(f, s, d) ==
  /\ ~IsPrefix(s, d)
  /\ LET rp == Lookup(f, Dirname(d), TRUE) IN rp.err = "OK" => ~IsPrefix(s, rp.path)

\* C1: a successful recursive copy of a tree of directories and regular
\* files to a destination that did not exist and lies outside the source
\* leaves at the destination exactly the source's tree: the same relative
\* paths, directories for directories, files with the same content for files,
\* and nothing else.
C1_RecursiveFidelity ==
  (/\ Succeeded /\ FirstCall
   /\ options.recursive
   /\ PlainTree(fs0, src)
   /\ Absent(fs0, dest)
   /\ Outside(fs0, src, dest))
  => /\ lstatSync(fs, dest).err = "OK"
     /\ lstatSync(fs, dest).node.kind # "link"
     /\ TreeAt(fs, dest) = TreeAt(fs0, src)

\* A nested tree (a directory holding a directory holding a file, and a
\* file) has been copied to a fresh destination.
C1_Witness ==
  /\ Succeeded /\ FirstCall /\ options.recursive
  /\ PlainTree(fs0, src) /\ Absent(fs0, dest) /\ Outside(fs0, src, dest)
  /\ <<"a", "b">> \in DOMAIN TreeAt(fs0, src)
  /\ <<"b">> \in DOMAIN TreeAt(fs0, src)
  /\ TreeAt(fs, dest) = TreeAt(fs0, src)

\* The source is a directory, or with dereference a link resolving to one.
SourceIsDirectory ==
  LET l == lstatSync(fs0, src) IN
  /\ l.err = "OK"
  /\ \/ l.node.kind = "dir"
     \/ /\ l.node.kind = "link" /\ options.dereference
        /\ statSync(fs0, src).err = "OK" /\ statSync(fs0, src).node.kind = "dir"

\* C2 as stated: a directory source (also one reached by dereferencing the
\* top-level link) without the recursive option fails with EISDIR naming the
\* source path, and the filesystem is as it was before the call.
C2_AsStated ==
  (Done /\ FirstCall /\ ~options.recursive /\ SourceIsDirectory)
  => /\ err = [code |-> "EISDIR", path |-> src]
     /\ fs = fs0

\* C2 amended: a directory source without the recursive option fails with
\* EISDIR and the filesystem is as it was before the call; the error names
\* the source path when the source itself is the directory, and the real path
\* the source resolves to when the directory is reached by dereferencing the
\* top-level link.
C2_RejectsDirectory ==
  (Done /\ FirstCall /\ ~options.recursive /\ SourceIsDirectory)
  => /\ err.code = "EISDIR"
     /\ err.path = IF lstatSync(fs0, src).node.kind = "dir" THEN src
                   ELSE realpathSync(fs0, src).path
     /\ fs = fs0

\* A top-level link to a directory has been dereferenced and rejected, with
\* a destination whose parent is missing.
C2_Witness ==
  /\ Done /\ FirstCall /\ ~options.recursive /\ options.dereference
  /\ lstatSync(fs0, src).node.kind = "link"
  /\ SourceIsDirectory
  /\ ~existsSync(fs0, Dirname(dest))
  /\ err.code = "EISDIR"

\* The links of the source tree, by relative path.
SourceLinks == {q \in DOMAIN TreeAt(fs0, src) : TreeAt(fs0, src)[q].kind = "link"}

\* C3: after a successful recursive copy with dereference (verbatimSymlinks
\* either way) to a destination that did not exist, the filesystem holds no
\* link the call created; every source link resolving to a regular file is a
\* regular file with that content at its destination path, and every source
\* link resolving to a directory is a directory there, holding for each entry
\* of the resolved directory an entry of the kind that entry resolves to (with
\* the same content for a file).
C3_DereferenceCollapsesLinks ==
  (Succeeded /\ FirstCall /\ options.dereference /\ options.recursive
   /\ Absent(fs0, dest))
  => /\ \A p \in DOMAIN fs : fs[p].kind = "link" => p \in DOMAIN fs0 /\ fs0[p] = fs[p]
     /\ \A q \in SourceLinks :
          LET t == statSync(fs0, src \o q)
              real == realpathSync(fs0, src \o q).path
              dn == lstatSync(fs, dest \o q)
          IN /\ t.err = "OK"
             /\ dn.err = "OK"
             /\ t.node.kind = "file" => dn.node = FileNode(t.node.data)
             /\ t.node.kind = "dir" =>
                  /\ dn.node.kind = "dir"
                  /\ \A n \in readdirSync(fs0, real).names :
                       LET te == statSync(fs0, Join(real, n))
                           de == lstatSync(fs, Join(dest \o q, n))
                       IN /\ te.err = "OK" /\ de.err = "OK"
                          /\ de.node.kind = te.node.kind
                          /\ te.node.kind = "file" => de.node = te.node

\* A tree with a link to a file and a link (through another link) to a
\* non-empty directory has been copied with dereference.
C3_Witness ==
  /\ Succeeded /\ FirstCall /\ options.dereference /\ options.recursive
  /\ Absent(fs0, dest)
  /\ \E q \in SourceLinks : statSync(fs0, src \o q).node.kind = "file"
  /\ \E q \in SourceLinks :
       /\ statSync(fs0, src \o q).node.kind = "dir"
       /\ readdirSync(fs0, src \o q).names # {}
       /\ lstatSync(fs, dest \o q).node.kind = "dir"

Dot == [abs |-> FALSE, segs |-> <<".">>]

\* The invocations so far that took the link-preserving branch and returned.
LinksMade == {e \in log : e.branch = "link" /\ e.ok}

\* C4: with dereference and verbatimSymlinks both false, every invocation
\* on a source link that has returned has left a link at its destination
\* path, and after a call that returned every link of the source tree is a
\* link at its destination path; the stored target is relative and, resolved
\* from the destination link's directory, is the path the source link's
\* target resolves to from the source link's directory; it is '.' when that
\* path is the destination link's directory itself.
C4_RelativeLinkTargets ==
  (~options.dereference /\ ~options.verbatimSymlinks)
  => /\ \A e \in LinksMade :
          LET dn == lstatSync(fs, e.dest) IN
          /\ dn.err = "OK"
          /\ dn.node.kind = "link"
          /\ PathResolve(Dirname(e.dest), dn.node.target)
               = PathResolve(Dirname(e.src), e.target)
     /\ Succeeded =>
          \A q \in SourceLinks :
            LET dn == lstatSync(fs, dest \o q)
                want == PathResolve(Dirname(src \o q), TreeAt(fs0, src)[q].target)
            IN /\ dn.err = "OK"
               /\ dn.node.kind = "link"
               /\ ~dn.node.target.abs
               /\ PathResolve(Dirname(dest \o q), dn.node.target) = want
               /\ want = Dirname(dest \o q) => dn.node.target = Dot
               /\ want # Dirname(dest \o q) =>
                    dn.node.target.segs # <<>> /\ dn.node.target # Dot

\* A tree has been copied in which one link's target is the destination
\* link's own directory and another's lies beside the source link, so that
\* the first is stored as '.' and the second climbs out of the destination.
C4_Witness ==
  /\ Succeeded /\ ~options.dereference /\ ~options.verbatimSymlinks
  /\ \E q \in SourceLinks : lstatSync(fs, dest \o q).node = LinkNode(Dot, "file")
  /\ \E q \in SourceLinks :
       /\ lstatSync(fs, dest \o q).node.kind = "link"
       /\ Head(lstatSync(fs, dest \o q).node.target.segs) = ".."
       /\ lstatSync(fs, dest \o q).node.target # TreeAt(fs0, src)[q].target

\* C5: with verbatimSymlinks and without dereference, every invocation on
\* a source link that has returned has left at its destination path a link
\* storing exactly the source link's target string, and after a call that
\* returned every link of the source tree is such a link at its destination
\* path.
C5_VerbatimLinkTargets ==
  (options.verbatimSymlinks /\ ~options.dereference)
  => /\ \A e \in LinksMade :
          LET dn == lstatSync(fs, e.dest) IN
          dn.err = "OK" /\ dn.node.kind = "link" /\ dn.node.target = e.target
     /\ Succeeded =>
          \A q \in SourceLinks :
            LET dn == lstatSync(fs, dest \o q) IN
            /\ dn.err = "OK"
            /\ dn.node.kind = "link"
            /\ dn.node.target = TreeAt(fs0, src)[q].target

\* A tree with a relative link and an absolute link has been copied verbatim
\* to a destination at another depth than the source.
C5_Witness ==
  /\ Succeeded /\ options.verbatimSymlinks /\ ~options.dereference
  /\ Len(dest) # Len(src)
  /\ \E q \in SourceLinks :
       /\ ~TreeAt(fs0, src)[q].target.abs
       /\ lstatSync(fs, dest \o q).node.target = TreeAt(fs0, src)[q].target
  /\ \E q \in SourceLinks :
       /\ TreeAt(fs0, src)[q].target.abs
       /\ lstatSync(fs, dest \o q).node.target = TreeAt(fs0, src)[q].target

\* C6 (idempotent retry): when a recursive copy into a destination that did
\* not exist has succeeded, the same call made again succeeds too and leaves
\* the filesystem exactly as the first call left it.
C6_IdempotentRetry ==
  (Done /\ run = 2 /\ options.recursive /\ Absent(fs0, dest))
  => /\ err.code = "OK"
     /\ fs = fs1

\* C7: on the link-preserving path (the source is a link, no dereference),
\* whatever occupies the destination path before the call, a file, a
\* directory, a link to something or a stale link, the call succeeds and the
\* destination path is the new link.
C7_ReplacesOccupiedDestination ==
  (/\ Done /\ FirstCall
   /\ ~options.dereference
   /\ lstatSync(fs0, src).err = "OK" /\ lstatSync(fs0, src).node.kind = "link"
   /\ lstatSync(fs0, dest).err = "OK")
  => /\ err.code = "OK"
     /\ lstatSync(fs, dest).err = "OK"
     /\ lstatSync(fs, dest).node =
          LinkNode(NewLinkTarget(lstatSync(fs0, src).node.target, src, dest,
                                 options.verbatimSymlinks), "file")

\* The proper ancestors of p, the root included.
Ancestors(p) == {SubSeq(p, 1, k) : k \in 0..(Len(p) - 1)}

IsDirectory(f, p) == statSync(f, p).err = "OK" /\ statSync(f, p).node.kind = "dir"

\* C8 as stated: when the source path does not exist the call fails with
\* ENOENT and the filesystem is unchanged, whatever the options.
C8_AsStated ==
  (Done /\ FirstCall /\ Absent(fs0, src))
  => /\ err.code = "ENOENT"
     /\ fs = fs0

\* C8 amended: when the source path does not exist the call fails with the
\* error of lstat, naming the source, and the filesystem is unchanged (no
\* destination, no ancestor of it is made), whatever the options; the error
\* is ENOTDIR when a proper ancestor of the source is a regular file and
\* ENOENT otherwise.
C8_MissingSource ==
  (Done /\ FirstCall /\ Absent(fs0, src))
  => /\ err.path = src
     /\ err.code =
          IF \E a \in Ancestors(src) :
               statSync(fs0, a).err = "OK" /\ statSync(fs0, a).node.kind = "file"
          THEN "ENOTDIR" ELSE "ENOENT"
     /\ fs = fs0

\* A call with a missing source and a destination two missing directories
\* deep has failed with ENOENT.
C8_Witness ==
  /\ Done /\ FirstCall /\ Absent(fs0, src)
  /\ Len(dest) = 3 /\ Absent(fs0, Dirname(Dirname(dest)))
  /\ err.code = "ENOENT"

NoOptions ==
  options = [recursive |-> FALSE, verbatimSymlinks |-> FALSE, dereference |-> FALSE]

\* Every proper ancestor of p is a directory or is itself missing.
AncestorsMissingOrDirectories(f, p) ==
  \A a \in Ancestors(p) : IsDirectory(f, a) \/ lstatSync(f, a).err = "ENOENT"

\* C9: cpSync without options of a regular file F to a destination that is
\* absent (its ancestors directories or missing) or is a regular file with
\* other content succeeds; the destination is then a regular file holding
\* exactly F's bytes and every ancestor of it is a directory.
C9_FileCopy ==
  (/\ Done /\ FirstCall /\ NoOptions
   /\ lstatSync(fs0, src).err = "OK" /\ lstatSync(fs0, src).node.kind = "file"
   /\ \/ lstatSync(fs0, dest).err = "ENOENT" /\ AncestorsMissingOrDirectories(fs0, dest)
      \/ /\ lstatSync(fs0, dest).err = "OK"
         /\ lstatSync(fs0, dest).node.kind = "file"
         /\ lstatSync(fs0, dest).node.data # lstatSync(fs0, src).node.data)
  => /\ err.code = "OK"
     /\ lstatSync(fs, dest).err = "OK"
     /\ lstatSync(fs, dest).node = FileNode(lstatSync(fs0, src).node.data)
     /\ \A a \in Ancestors(dest) : IsDirectory(fs, a)

\* A file has been copied to a destination whose two nearest ancestors were
\* missing.
C9_Witness ==
  /\ Succeeded /\ FirstCall /\ NoOptions
  /\ lstatSync(fs0, src).err = "OK" /\ lstatSync(fs0, src).node.kind = "file"
  /\ Len(dest) = 3
  /\ Absent(fs0, Dirname(Dirname(dest)))
  /\ lstatSync(fs, dest).node = FileNode(lstatSync(fs0, src).node.data)

\* What a traversal of the entry at p, as it is in f, goes into: the
\* entries of a directory (with recursive), the directory a link resolves to
\* (with dereference).
Below(f, p) ==
  LET l == lstatSync(f, p) IN
  IF l.err # "OK" \/ l.node.kind = "file" THEN {}
  ELSE IF l.node.kind = "link"
    THEN IF options.dereference /\ IsDirectory(f, p)
           THEN {realpathSync(f, p).path} ELSE {}
  ELSE IF ~options.recursive THEN {}
  ELSE Children(f, Lookup(f, p, TRUE).path)

\* A traversal from the paths S goes deeper than depth: with depth the
\* number of entries of f, it goes round a cycle (a link into an ancestor).
RECURSIVE Deeper(_, _, _)
Deeper(f, S, depth) ==
  /\ S # {}
  /\ \/ depth = 0
     \/ \E p \in S : Deeper(f, Below(f, p), depth - 1)

LinkCycle(f, p) == Deeper(f, {p}, Cardinality(DOMAIN f))

\* The invocations a traversal of the trees at the paths S makes: one for
\* each entry, the entries of a dereferenced directory included.
RECURSIVE Entries(_, _)
Entries(f, S) ==
  IF S = {} THEN 0
  ELSE LET p == CHOOSE y \in S : TRUE IN
       1 + Entries(f, Below(f, p)) + Entries(f, S \ {p})

\* C10 (the bound of the termination claim): where the links form no
\* cycle, the invocations of one call never exceed the entries the source
\* tree held when the call started, wherever the destination is.
C10_BoundedInvocations ==
  (FirstCall /\ ~LinkCycle(fs0, src)) => calls <= Entries(fs0, {src})

====
